---------------------------- MODULE Spec2Model ----------------------------
(***************************************************************************)
(* A model of meltdown_rust (src/src/main.rs): a flush+reload byte oracle  *)
(* driven by a TSX transaction, a five-round majority vote on top of it,   *)
(* and a walker that recovers a byte range line by line and prints it.     *)
(*                                                                         *)
(* The program is single-threaded; the state machine follows main() with   *)
(* guess_byte and guess_byte_once inlined, one action per statement or     *)
(* loop iteration.  The environment supplies the host page size, the       *)
(* outcome of the allocation, the status of every xbegin and the latency   *)
(* of every probe.                                                         *)
(*                                                                         *)
(* The u8 range (256 values, hence 256 probe slots) is scaled to NumSlots  *)
(* values: a byte is a number in 0..NumSlots-1 wherever the program loops  *)
(* over 0..256 or indexes a [_; 256] array.  The renderer (dump_hex,       *)
(* human_readable) is modelled on full 0..255 bytes.                       *)
(***************************************************************************)
EXTENDS Integers, Sequences, FiniteSets, TLC

(***************************************************************************)
(* Program constants.                                                      *)
(***************************************************************************)
CHUNK_SIZE == 8
LINE_LEN == 32
PAGE_SIZE == 4096
PROBE_COUNT == 5
\* TEST.len() for TEST = "papa, can you hear me?"
TEST_LEN == 22

(***************************************************************************)
(* Bounds of the model.                                                    *)
(***************************************************************************)
\* number of probe slots and of byte values (256 in the program)
NumSlots == 4
\* cycles measured for a cached and for an uncached read
FastCycles == 40
SlowCycles == 300
\* how far past a line boundary the longer secret ranges reach
ExtraLen == 1
\* transactions the environment may abort in one run over a long range
MaxRunAborts == 1

Byte == 0 .. NumSlots - 1
Slots == 0 .. NumSlots - 1
Latencies == {FastCycles, SlowCycles}

\* enum BeginResult, as the i32 the xbegin intrinsic returns and transmute
\* reinterprets: XBeginStarted = !(0 as u32) is -1, the abort flags are 1 << k
XBeginStarted == -1
XAbortExplicit == 1
XAbortRetry == 2
XAbortConflict == 4
XAbortCapacity == 8
XAbortDebug == 16
XAbortNested == 32
AbortFlags ==
    {XAbortExplicit, XAbortRetry, XAbortConflict, XAbortCapacity, XAbortDebug,
     XAbortNested}
\* the hardware also reports no flag at all, or several at once; the derived
\* == compares the discriminant, so these too differ from XBeginStarted
AbortStatuses == AbortFlags \cup {0, XAbortRetry + XAbortConflict}
BeginResult == {XBeginStarted} \cup AbortStatuses

\* the value of an array element that `uninitialized()` left unwritten
UNINIT == -1

\* a min that always yields its second argument
Min2Second(a, b) == b

Min2(a, b) == IF a < b THEN a ELSE b

(***************************************************************************)
(* Text: a string is the sequence of its characters' code points; every    *)
(* character the program prints is ASCII.                                  *)
(***************************************************************************)
\* ' ' and '~', the bounds of human_readable; '.', its replacement
CharSpace == 32
CharTilde == 126
CharDot == 46
\* '|', the field separator of dump_hex
CharBar == 124
\* '0' and 'A', from which the digits of {:X} and {} count; 'x' of "0x"
CharZero == 48
CharA == 65
CharX == 120

RECURSIVE Repeat(_, _)
Repeat(str, n) == IF n <= 0 THEN <<>> ELSE str \o Repeat(str, n - 1)

\* the upper-case hexadecimal digit of d in 0..15
HexDigit(d) == IF d < 10 THEN CharZero + d ELSE CharA + (d - 10)

RECURSIVE UpperHex(_)
\* the digits of n in base 16, most significant first, no padding
UpperHex(n) ==
    IF n < 16 THEN <<HexDigit(n)>>
    ELSE UpperHex(n \div 16) \o <<HexDigit(n % 16)>>

RECURSIVE Decimal(_)
\* format!("{}", n)
Decimal(n) ==
    IF n < 10 THEN <<CharZero + n>>
    ELSE Decimal(n \div 10) \o <<CharZero + (n % 10)>>

\* format!("{:0wX}", n): zero padded to a minimum width of w
FmtHex(n, w) == Repeat(<<CharZero>>, w - Len(UpperHex(n))) \o UpperHex(n)

\* a test that leaves out both bounds: byte > ' ' && byte < '~'
human_readable_exclusive(byte) ==
    IF byte > CharSpace /\ byte < CharTilde THEN byte ELSE CharDot

human_readable(byte) ==
    IF byte >= CharSpace /\ byte <= CharTilde THEN byte ELSE CharDot

RECURSIVE HexBytesUnpadded(_)
\* bytes printed with "{:X}", without the width of two
HexBytesUnpadded(chunk) ==
    IF chunk = <<>> THEN <<>>
    ELSE FmtHex(Head(chunk), 1) \o HexBytesUnpadded(Tail(chunk))

RECURSIVE HexBytes(_)
\* for byte in chunk { print!("{:02X}", byte) }
HexBytes(chunk) ==
    IF chunk = <<>> THEN <<>>
    ELSE FmtHex(Head(chunk), 2) \o HexBytes(Tail(chunk))

RECURSIVE HexChunks(_)
\* for chunk in s.chunks(CHUNK_SIZE) { ...; print!(" ") }
HexChunks(s) ==
    IF s = <<>> THEN <<>>
    ELSE LET n == Min2(CHUNK_SIZE, Len(s))
         IN  HexBytes(SubSeq(s, 1, n)) \o <<CharSpace>>
                 \o HexChunks(SubSeq(s, n + 1, Len(s)))

\* a padding without the spaces that stand for the missing groups' separators
HexPaddingNoGroups(n) == Repeat(<<CharSpace, CharSpace>>, LINE_LEN - n)

\* the padding printed after the chunks
HexPadding(n) ==
    LET remainder == LINE_LEN - n
    IN  Repeat(<<CharSpace, CharSpace>>, remainder)
            \o Repeat(<<CharSpace>>, remainder \div 8)

\* everything dump_hex prints between the two separators "| "
HexField(s) == HexChunks(s) \o HexPadding(Len(s))

AsciiField(s) == [k \in 1 .. Len(s) |-> human_readable(s[k])]

\* print!("0x{:016X} | ", addr as usize), up to the separator
AddrField(addr) == <<CharZero, CharX>> \o FmtHex(addr, 16)

\* the line dump_hex prints, without its line terminator
DumpHexLine(addr, s) ==
    AddrField(addr) \o <<CharSpace, CharBar, CharSpace>> \o HexField(s)
        \o <<CharBar, CharSpace>> \o AsciiField(s)

\* println!("poke buffer: 0x{:016X}, page size: {}", poke_buf, PAGE_SIZE)
HeaderLine(buf) ==
    <<112, 111, 107, 101, 32, 98, 117, 102, 102, 101, 114, 58, 32, 48, 120>>
        \o FmtHex(buf, 16)
        \o <<44, 32, 112, 97, 103, 101, 32, 115, 105, 122, 101, 58, 32>>
        \o Decimal(PAGE_SIZE)

\* static TEST: &'static str = "papa, can you hear me?", as code points
TEST ==
    <<112, 97, 112, 97, 44, 32, 99, 97, 110, 32, 121, 111, 117, 32, 104,
      101, 97, 114, 32, 109, 101, 63>>

(***************************************************************************)
(* Selection.  Arrays indexed 0..n-1 are functions on 0 .. n-1.            *)
(***************************************************************************)
RECURSIVE MinLastFrom(_, _, _)
\* a selection that lets a later element win on an equal key
MinLastFrom(a, k, best) ==
    IF k >= NumSlots THEN best
    ELSE MinLastFrom(a, k + 1, IF a[best] >= a[k] THEN k ELSE best)

MinByKeyLast(a) == MinLastFrom(a, 1, 0) % NumSlots

RECURSIVE MaxFirstFrom(_, _, _)
\* a selection that keeps the first element on an equal key
MaxFirstFrom(a, k, best) ==
    IF k >= NumSlots THEN best
    ELSE MaxFirstFrom(a, k + 1, IF a[best] < a[k] THEN k ELSE best)

MaxByKeyFirst(a) == MaxFirstFrom(a, 1, 0) % NumSlots

RECURSIVE MinFrom(_, _, _)
\* Iterator::min_by_key from element k on, best being the selection so far:
\* a later element replaces it only when its key is strictly smaller.
MinFrom(a, k, best) ==
    IF k >= NumSlots THEN best
    ELSE MinFrom(a, k + 1, IF a[best] > a[k] THEN k ELSE best)

\* times.iter().enumerate().min_by_key(|&(_, item)| item).unwrap().0 as u8
MinByKey(a) == MinFrom(a, 1, 0) % NumSlots

\* a vote that returns the value with the fewest hits: min_by_key
MaxByKeyFewest(a) == MinFrom(a, 1, 0) % NumSlots

RECURSIVE MaxFrom(_, _, _)
\* Iterator::max_by_key from element k on: a later element replaces the
\* selection whenever its key is not smaller.
MaxFrom(a, k, best) ==
    IF k >= NumSlots THEN best
    ELSE MaxFrom(a, k + 1, IF a[best] <= a[k] THEN k ELSE best)

\* hit_counts.iter().enumerate().max_by_key(|&(_, &item)| item).unwrap().0 as u8
MaxByKey(a) == MaxFrom(a, 1, 0) % NumSlots

(***************************************************************************)
(* Addresses.                                                              *)
(***************************************************************************)
\* an address computed without the page stride: buf.add(i)
SlotAddrNoStride(buf, k) == buf + k

\* buf.add(i * PAGE_SIZE)
SlotAddr(buf, k) == buf + k * PAGE_SIZE

\* Layout::from_size_align_unchecked(256 * PAGE_SIZE, PAGE_SIZE)
BufSize == NumSlots * PAGE_SIZE

\* what page_size::get() may report
HostPageSizes == {PAGE_SIZE, 4 * PAGE_SIZE}

\* the page-aligned addresses the allocator may return
BufBases == {16 * PAGE_SIZE}

\* the bytes an uninitialised probe page may hold
BufFills == {0, NumSlots - 1}

\* TEST.as_ptr()
StartAddrs == {1024 * PAGE_SIZE + 8}

\* the lengths of the secret ranges of the long runs
Lens ==
    {0, TEST_LEN, LINE_LEN, LINE_LEN + ExtraLen, 2 * LINE_LEN + ExtraLen}

(***************************************************************************)
(* State.                                                                  *)
(***************************************************************************)
VARIABLES
    pc,             \* the statement main() is at
    page_size,      \* what page_size::get() returns on this host
    start_addr,     \* TEST.as_ptr()
    len,            \* TEST.len()
    mem,            \* the secret bytes, by offset from start_addr
    noisy,          \* whether probe latencies are unrelated to cache state
    aborts_left,    \* transactions the environment may still abort (-1: any)
    plan,           \* the transactions the environment aborts, if it is scripted
    poke_buf,       \* the probe buffer's base address, 0 before allocation
    poke_mem,       \* the first byte of each probe page
    held,           \* the probe buffer is allocated and not deallocated
    cached,         \* the probe-buffer addresses whose line is in the cache
    chunk_start,    \* main: the loop variable of the line loop
    bytes_to_read,  \* main: the number of bytes of the current line
    x,              \* main: the loop variable of the byte loop
    s,              \* main: the line array
    round,          \* guess_byte: rounds completed
    hit_counts,     \* guess_byte: the hit histogram
    i,              \* guess_byte_once: the loop variable of flush and probe
    times,          \* guess_byte_once: the timing vector
    guess,          \* the value the last guess_byte_once returned
    status,         \* the value of xbegin() while it is compared, else 0
    trace,          \* history: the memory and transaction events of the round
    calls,          \* history: the addresses guess_byte was called with
    dumped,         \* history: the arguments of every dump_hex call
    out             \* the lines written to standard output

vars ==
    <<pc, page_size, start_addr, len, mem, noisy, aborts_left, plan, poke_buf,
      poke_mem, held, cached, chunk_start, bytes_to_read, x, s, round,
      hit_counts, i, times, guess, status, trace, calls, dumped, out>>

env == <<page_size, start_addr, len, mem, noisy, plan>>
results == <<guess, status>>
mainLocals == <<chunk_start, bytes_to_read, x, s>>
history == <<calls, dumped, out>>
buffer == <<poke_buf, poke_mem, held>>

Event(op, arg) == [op |-> op, arg |-> arg]

UninitLine == [k \in 0 .. LINE_LEN - 1 |-> UNINIT]
UninitTimes == [k \in Slots |-> UNINIT]
ZeroCounts == [k \in Slots |-> 0]

\* the environment decides the outcome of every transaction as it comes
Unscripted == {-1}

\* the number of the xbegin() the program is at, counted from 0 over the run
Attempt == PROBE_COUNT * (chunk_start + x) + round

\* the address guess_byte is reading: start_addr.add(chunk_start + x)
SecretAddr == start_addr + chunk_start + x

InitWith(lens, envs, budget, plans) ==
    /\ pc = "main"
    /\ page_size \in HostPageSizes
    /\ start_addr \in StartAddrs
    /\ len \in lens
    /\ noisy \in envs
    /\ aborts_left = budget
    /\ plan \in plans
    /\ poke_buf = 0
    /\ poke_mem = [k \in Slots |-> 0]
    /\ held = FALSE
    /\ cached = {}
    /\ chunk_start = 0
    /\ bytes_to_read = 0
    /\ x = 0
    /\ s = UninitLine
    /\ round = 0
    /\ hit_counts = ZeroCounts
    /\ i = 0
    /\ times = UninitTimes
    /\ guess = 0
    /\ status = 0
    /\ trace = <<>>
    /\ calls = <<>>
    /\ dumped = <<>>
    /\ out = <<>>

(***************************************************************************)
(* main                                                                    *)
(***************************************************************************)
\* a start that does not compare the page size
CheckPageSizeIgnored ==
    /\ pc = "main"
    /\ pc' = "alloc"
    /\ UNCHANGED <<env, aborts_left, buffer, cached, mainLocals, round,
                   hit_counts, i, times, results, trace, history>>

\* assert_eq!(page_size::get(), PAGE_SIZE)
CheckPageSize ==
    /\ pc = "main"
    /\ pc' = IF page_size = PAGE_SIZE THEN "alloc" ELSE "panicked"
    /\ UNCHANGED <<env, aborts_left, buffer, cached, mainLocals, round,
                   hit_counts, i, times, results, trace, history>>

\* Heap.alloc(..).unwrap(): the allocator returns a page-aligned block of
\* uninitialised memory, or fails and unwrap panics
AllocOk ==
    /\ pc = "alloc"
    /\ \E base \in BufBases, fill \in BufFills :
          /\ poke_buf' = base
          /\ poke_mem' = [k \in Slots |-> fill]
    /\ held' = TRUE
    /\ pc' = "header"
    /\ UNCHANGED <<env, aborts_left, cached, mainLocals, round, hit_counts,
                   i, times, results, trace, history>>

AllocErr ==
    /\ pc = "alloc"
    /\ pc' = "panicked"
    /\ UNCHANGED <<env, aborts_left, buffer, cached, mainLocals, round,
                   hit_counts, i, times, results, trace, history>>

\* a header that goes to another stream than standard output
PrintHeaderElsewhere ==
    /\ pc = "header"
    /\ chunk_start' = 0
    /\ pc' = "chunk_loop"
    /\ UNCHANGED <<env, aborts_left, buffer, cached, bytes_to_read, x, s,
                   round, hit_counts, i, times, results, trace, calls, dumped,
                   out>>

\* println!("poke buffer: ..."), then the line loop starts at 0
PrintHeader ==
    /\ pc = "header"
    /\ out' = Append(out, HeaderLine(poke_buf))
    /\ chunk_start' = 0
    /\ pc' = "chunk_loop"
    /\ UNCHANGED <<env, aborts_left, buffer, cached, bytes_to_read, x, s,
                   round, hit_counts, i, times, results, trace, calls, dumped>>

\* for chunk_start in (0..len).step_by(LINE_LEN): one more line
ChunkNext ==
    /\ pc = "chunk_loop"
    /\ chunk_start < len
    /\ bytes_to_read' = Min2(len - chunk_start, LINE_LEN)
    /\ s' = UninitLine
    /\ x' = 0
    /\ pc' = "byte_loop"
    /\ UNCHANGED <<env, aborts_left, buffer, cached, chunk_start, round,
                   hit_counts, i, times, results, trace, history>>

\* the line loop is exhausted: main returns
ChunkDone ==
    /\ pc = "chunk_loop"
    /\ chunk_start >= len
    /\ pc' = "done"
    /\ UNCHANGED <<env, aborts_left, buffer, cached, mainLocals, round,
                   hit_counts, i, times, results, trace, history>>

\* for x in 0..bytes_to_read: call guess_byte(start_addr.add(chunk_start + x))
\* a guess_byte that keeps the histogram of the byte before:
\* hit_counts is not set to [0; 256]
ByteNextKeepCounts ==
    /\ pc = "byte_loop"
    /\ x < bytes_to_read
    /\ calls' = Append(calls, SecretAddr)
    /\ round' = 0
    /\ pc' = "round_loop"
    /\ UNCHANGED <<env, aborts_left, buffer, cached, mainLocals, hit_counts,
                   i, times, results, trace, dumped, out>>

ByteNext ==
    /\ pc = "byte_loop"
    /\ x < bytes_to_read
    /\ calls' = Append(calls, SecretAddr)
    /\ hit_counts' = ZeroCounts
    /\ round' = 0
    /\ pc' = "round_loop"
    /\ UNCHANGED <<env, aborts_left, buffer, cached, mainLocals, i, times,
                   results, trace, dumped, out>>

\* a dump_hex call that is handed the whole line array: dump_hex(.., &s)
DumpHexWholeArray ==
    /\ pc = "byte_loop"
    /\ x >= bytes_to_read
    /\ LET addr == start_addr + chunk_start
           line == [k \in 1 .. LINE_LEN |-> s[k - 1]]
       IN  IF Len(line) <= LINE_LEN
           THEN /\ out' = Append(out, DumpHexLine(addr, line))
                /\ dumped' = Append(dumped, [addr |-> addr, bytes |-> line])
                /\ chunk_start' = chunk_start + LINE_LEN
                /\ pc' = "chunk_loop"
           ELSE /\ pc' = "panicked"
                /\ UNCHANGED <<out, dumped, chunk_start>>
    /\ UNCHANGED <<env, aborts_left, buffer, cached, bytes_to_read, x, s,
                   round, hit_counts, i, times, results, trace, calls>>

\* dump_hex(start_addr.add(chunk_start), &s[..bytes_to_read]), then the next
\* chunk_start
DumpHex ==
    /\ pc = "byte_loop"
    /\ x >= bytes_to_read
    /\ LET addr == start_addr + chunk_start
           line == [k \in 1 .. bytes_to_read |-> s[k - 1]]
       IN  IF Len(line) <= LINE_LEN
           THEN /\ out' = Append(out, DumpHexLine(addr, line))
                /\ dumped' = Append(dumped, [addr |-> addr, bytes |-> line])
                /\ chunk_start' = chunk_start + LINE_LEN
                /\ pc' = "chunk_loop"
           ELSE /\ pc' = "panicked"
                /\ UNCHANGED <<out, dumped, chunk_start>>
    /\ UNCHANGED <<env, aborts_left, buffer, cached, bytes_to_read, x, s,
                   round, hit_counts, i, times, results, trace, calls>>

(***************************************************************************)
(* guess_byte                                                              *)
(***************************************************************************)
\* for _ in 0..PROBE_COUNT: call guess_byte_once, whose first statement is
\* flush_probe_buf
\* a guess_byte_once that flushes the probe buffer in the first round only
RoundNextFlushOnce ==
    /\ pc = "round_loop"
    /\ round < PROBE_COUNT
    /\ i' = 0
    /\ times' = UninitTimes
    /\ trace' = <<>>
    /\ pc' = IF round = 0 THEN "flush" ELSE "xbegin"
    /\ UNCHANGED <<env, aborts_left, buffer, cached, mainLocals, round,
                   hit_counts, results, history>>

RoundNext ==
    /\ pc = "round_loop"
    /\ round < PROBE_COUNT
    /\ i' = 0
    /\ times' = UninitTimes
    /\ trace' = <<>>
    /\ pc' = "flush"
    /\ UNCHANGED <<env, aborts_left, buffer, cached, mainLocals, round,
                   hit_counts, results, history>>

\* the rounds are over: guess_byte returns the maximum of the histogram and
\* main stores it in s[x]
Aggregate ==
    /\ pc = "round_loop"
    /\ round >= PROBE_COUNT
    /\ s' = [s EXCEPT ![x] = MaxByKey(hit_counts)]
    /\ x' = x + 1
    /\ times' = UninitTimes
    /\ trace' = <<>>
    /\ pc' = "byte_loop"
    /\ UNCHANGED <<env, aborts_left, buffer, cached, chunk_start,
                   bytes_to_read, round, hit_counts, i, results, history>>

(***************************************************************************)
(* guess_byte_once                                                         *)
(***************************************************************************)
\* a flush loop that stops one slot early: for i in 0..255
FlushOffByOne ==
    /\ pc = "flush"
    /\ LET adrs == SlotAddr(poke_buf, i)
       IN  /\ cached' = cached \ {adrs}
           /\ trace' = Append(trace, Event("flush", adrs))
    /\ i' = i + 1
    /\ pc' = IF i + 1 < NumSlots - 1 THEN "flush" ELSE "xbegin"
    /\ UNCHANGED <<env, aborts_left, buffer, mainLocals, round, hit_counts,
                   times, results, history>>

\* a flush loop that forgets the page stride: flush(buf.add(i))
FlushNoStride ==
    /\ pc = "flush"
    /\ LET adrs == poke_buf + i
       IN  /\ cached' = cached \ {adrs}
           /\ trace' = Append(trace, Event("flush", SlotAddr(poke_buf, i)))
    /\ i' = i + 1
    /\ pc' = IF i + 1 < NumSlots THEN "flush" ELSE "xbegin"
    /\ UNCHANGED <<env, aborts_left, buffer, mainLocals, round, hit_counts,
                   times, results, history>>

\* flush_probe_buf: flush(buf.add(i * PAGE_SIZE)) for i in 0..256
Flush ==
    /\ pc = "flush"
    /\ LET adrs == SlotAddr(poke_buf, i)
       IN  /\ cached' = cached \ {adrs}
           /\ trace' = Append(trace, Event("flush", adrs))
    /\ i' = i + 1
    /\ pc' = IF i + 1 < NumSlots THEN "flush" ELSE "xbegin"
    /\ UNCHANGED <<env, aborts_left, buffer, mainLocals, round, hit_counts,
                   times, results, history>>

\* xbegin() returns XBeginStarted: the transaction is running
XbeginStarted ==
    /\ pc = "xbegin"
    /\ plan = Unscripted \/ Attempt \notin plan
    /\ status' = XBeginStarted
    /\ trace' = Append(trace, Event("xbegin", 1))
    /\ pc' = "branch"
    /\ UNCHANGED <<env, aborts_left, buffer, cached, mainLocals, round,
                   hit_counts, i, times, guess, history>>

\* xbegin() returns an abort status: no transaction is running
XbeginAborted ==
    /\ pc = "xbegin"
    /\ aborts_left # 0
    /\ plan = Unscripted \/ Attempt \in plan
    /\ status' \in AbortStatuses
    /\ aborts_left' = IF aborts_left > 0 THEN aborts_left - 1 ELSE aborts_left
    /\ trace' = Append(trace, Event("xbegin", 0))
    /\ pc' = "branch"
    /\ UNCHANGED <<env, buffer, cached, mainLocals, round, hit_counts, i,
                   times, guess, history>>

\* a gadget that indexes the probe buffer by the secret byte alone
GadgetReadNoStride ==
    /\ pc = "branch"
    /\ status = XBeginStarted
    /\ LET v == mem[chunk_start + x]
           adrs == poke_buf + v
       IN  /\ cached' = cached \cup {adrs}
           /\ trace' = trace \o <<Event("read_secret", SecretAddr),
                                  Event("read_probe", adrs)>>
    /\ status' = 0
    /\ pc' = "xend"
    /\ UNCHANGED <<env, aborts_left, buffer, mainLocals, round, hit_counts,
                   i, times, guess, history>>

\* if xbegin() == XBeginStarted:
\* buf.add(secret.read_volatile() as usize * PAGE_SIZE).read_volatile()
GadgetRead ==
    /\ pc = "branch"
    /\ status = XBeginStarted
    /\ LET v == mem[chunk_start + x]
           adrs == SlotAddr(poke_buf, v)
       IN  /\ cached' = cached \cup {adrs}
           /\ trace' = trace \o <<Event("read_secret", SecretAddr),
                                  Event("read_probe", adrs)>>
    /\ status' = 0
    /\ pc' = "xend"
    /\ UNCHANGED <<env, aborts_left, buffer, mainLocals, round, hit_counts,
                   i, times, guess, history>>

\* xend(), then the probe loop starts
Xend ==
    /\ pc = "xend"
    /\ trace' = Append(trace, Event("xend", 0))
    /\ i' = 0
    /\ pc' = "probe"
    /\ UNCHANGED <<env, aborts_left, buffer, cached, mainLocals, round,
                   hit_counts, times, results, history>>

\* a fallback path that tries the transaction again
FenceRetry ==
    /\ pc = "branch"
    /\ status # XBeginStarted
    /\ trace' = Append(trace, Event("fence", 0))
    /\ status' = 0
    /\ i' = 0
    /\ pc' = "xbegin"
    /\ UNCHANGED <<env, aborts_left, buffer, cached, mainLocals, round,
                   hit_counts, times, guess, history>>

\* else: fence(SeqCst), then the probe loop starts
\* a fallback path that reads the secret and the probe slot all the same
FenceThenRead ==
    /\ pc = "branch"
    /\ status # XBeginStarted
    /\ trace' = Append(trace, Event("fence", 0))
    /\ cached' = cached \cup {SlotAddr(poke_buf, mem[chunk_start + x])}
    /\ status' = 0
    /\ i' = 0
    /\ pc' = "probe"
    /\ UNCHANGED <<env, aborts_left, buffer, mainLocals, round,
                   hit_counts, times, guess, history>>

Fence ==
    /\ pc = "branch"
    /\ status # XBeginStarted
    /\ trace' = Append(trace, Event("fence", 0))
    /\ status' = 0
    /\ i' = 0
    /\ pc' = "probe"
    /\ UNCHANGED <<env, aborts_left, buffer, cached, mainLocals, round,
                   hit_counts, times, guess, history>>

\* a timer whose readings have nothing to do with the cache
ProbeLatenciesAnything(adrs) == Latencies

\* the cycles a read of adrs takes: short exactly when the line is cached,
\* unless the environment is noisy
ProbeLatencies(adrs) ==
    IF noisy THEN Latencies
    ELSE IF adrs \in cached THEN {FastCycles} ELSE {SlowCycles}

\* times[i] = probe(buf.add(i * PAGE_SIZE)) for i in 0..256; the read
\* brings the line into the cache
Probe ==
    /\ pc = "probe"
    /\ LET adrs == SlotAddr(poke_buf, i)
       IN  /\ \E cycles \in ProbeLatencies(adrs) :
                 times' = [times EXCEPT ![i] = cycles]
           /\ cached' = cached \cup {adrs}
           /\ trace' = Append(trace, Event("probe", adrs))
    /\ i' = i + 1
    /\ pc' = IF i + 1 < NumSlots THEN "probe" ELSE "select"
    /\ UNCHANGED <<env, aborts_left, buffer, mainLocals, round, hit_counts,
                   results, history>>

\* guess_byte_once returns the index of the smallest time and guess_byte
\* counts it: hit_counts[guess_byte_once(secret, buf) as usize] += 1
Select ==
    /\ pc = "select"
    /\ LET g == MinByKey(times)
       IN  /\ guess' = g
           /\ hit_counts' = [hit_counts EXCEPT ![g] = @ + 1]
    /\ round' = round + 1
    /\ pc' = "round_loop"
    /\ UNCHANGED <<env, aborts_left, buffer, cached, mainLocals, i, times,
                   status, trace, history>>

Next ==
    \/ CheckPageSize
    \/ AllocOk
    \/ AllocErr
    \/ PrintHeader
    \/ ChunkNext
    \/ ChunkDone
    \/ ByteNext
    \/ DumpHex
    \/ RoundNext
    \/ Aggregate
    \/ Flush
    \/ XbeginStarted
    \/ XbeginAborted
    \/ GadgetRead
    \/ Xend
    \/ Fence
    \/ Probe
    \/ Select

(***************************************************************************)
(* Specifications.                                                         *)
(***************************************************************************)
\* every secret a range of n bytes may hold
AllSecrets(n) == [0 .. n - 1 -> Byte]

\* the secrets of the long runs: consecutive byte values from a first one
RampSecrets(n) ==
    {[k \in 0 .. n - 1 |-> (k + first) % NumSlots] : first \in {0, 1}}

\* a range of one byte (or none), every secret, any number of aborts, with and without noise
InitOracle ==
    /\ InitWith({0, 1}, BOOLEAN, -1, {Unscripted})
    /\ mem \in AllSecrets(len)

SpecOracle == InitOracle /\ [][Next]_vars

\* ranges of up to three lines in a noise-free environment
InitRun ==
    /\ InitWith(Lens, {FALSE}, MaxRunAborts, {Unscripted})
    /\ mem \in RampSecrets(len)

Spec == InitRun /\ [][Next]_vars

\* the program as shipped: the range is TEST, its bytes reduced to the byte
\* values of the model, in a noise-free environment
InitDemo ==
    /\ InitWith({Len(TEST)}, {FALSE}, MaxRunAborts, {Unscripted})
    /\ mem = [k \in 0 .. len - 1 |-> TEST[k + 1] % NumSlots]

SpecDemo == InitDemo /\ [][Next]_vars

\* the scripts of a replayed run: the first or the last so many attempts
\* of the first byte abort, or every other one, and none, most or all
\* attempts of the second byte do
ReplayPlans ==
    {p \cup q : p \in {0 .. k - 1 : k \in 0 .. PROBE_COUNT}
                        \cup {k .. PROBE_COUNT - 1 : k \in 0 .. PROBE_COUNT}
                        \cup {{0, 2, 4}, {1, 3}},
                q \in {{}, PROBE_COUNT .. PROBE_COUNT + 2,
                       PROBE_COUNT .. 2 * PROBE_COUNT - 1}}

\* runs that can be repeated: a range of up to two bytes, every secret, no
\* noise, and the outcome of every transaction fixed beforehand
InitReplay ==
    /\ InitWith({0, 1, 2}, {FALSE}, -1, ReplayPlans)
    /\ mem \in AllSecrets(len)

SpecReplay == InitReplay /\ [][Next]_vars

\* the byte lines dump_hex is given: every single byte, TEST, and lines of
\* every length up to LINE_LEN whose bytes step through the u8 range
RenderLines ==
    {<<b>> : b \in 0 .. 255}
        \cup {TEST}
        \cup {[k \in 1 .. n |-> (32 + (k - 1) * step) % 256] :
                n \in 0 .. LINE_LEN, step \in {1, 37, 94, 95, 255}}

\* dump_hex about to be called, as main calls it once the bytes of a line
\* are recovered, with any of these lines
InitRender ==
    /\ pc = "byte_loop"
    /\ page_size = PAGE_SIZE
    /\ start_addr \in StartAddrs
    /\ \E line \in RenderLines :
          /\ len = Len(line)
          /\ bytes_to_read = Len(line)
          /\ x = Len(line)
          /\ s = [k \in 0 .. LINE_LEN - 1 |->
                    IF k < Len(line) THEN line[k + 1] ELSE UNINIT]
    /\ mem = [k \in 0 .. len - 1 |-> 0]
    /\ noisy = FALSE
    /\ aborts_left = 0
    /\ plan = Unscripted
    /\ poke_buf \in BufBases
    /\ poke_mem = [k \in Slots |-> 0]
    /\ held = TRUE
    /\ cached = {SlotAddr(poke_buf, k) : k \in Slots}
    /\ chunk_start = 0
    /\ round = PROBE_COUNT
    /\ hit_counts = ZeroCounts
    /\ i = NumSlots
    /\ times = UninitTimes
    /\ guess = 0
    /\ status = 0
    /\ trace = <<>>
    /\ calls = [k \in 1 .. len |-> start_addr + (k - 1)]
    /\ dumped = <<>>
    /\ out = <<HeaderLine(poke_buf)>>

\* the call of dump_hex and the end of the line loop
NextRender ==
    \/ DumpHex
    \/ ChunkDone

SpecRender == InitRender /\ [][NextRender]_vars

(***************************************************************************)
(* Properties.                                                             *)
(***************************************************************************)
\* guess_byte has just returned into s[x - 1]; hit_counts is its histogram
ByteReturned == pc = "byte_loop" /\ x > 0

\* guess_byte_once has just returned guess; times is its timing vector
RoundReturned == pc = "round_loop" /\ round > 0

\* the rounds of the current byte whose transaction started
Started(tr) == \E k \in 1 .. Len(tr) : tr[k].op = "xbegin" /\ tr[k].arg = 1
Aborted(tr) == \E k \in 1 .. Len(tr) : tr[k].op = "xbegin" /\ tr[k].arg = 0

\* C1 as stated: guess_byte returns a value whose hit count is the highest,
\* and among the values sharing the highest count the lowest-indexed one.
C1_LowestIndexedMaximum ==
    ByteReturned =>
        LET r == s[x - 1]
        IN  /\ r \in Byte
            /\ \A k \in Slots : hit_counts[k] <= hit_counts[r]
            /\ \A k \in Slots : hit_counts[k] = hit_counts[r] => r <= k

\* C1 amended: guess_byte returns a value whose hit count is the highest
\* over the rounds of that byte, and among the values sharing the highest
\* count the highest-indexed one, whatever the rounds guessed.
C1_HighestIndexedMaximum ==
    ByteReturned =>
        LET r == s[x - 1]
        IN  /\ r \in Byte
            /\ \A k \in Slots : hit_counts[k] <= hit_counts[r]
            /\ \A k \in Slots : hit_counts[k] = hit_counts[r] => k <= r

\* guess_byte returned from a histogram in which two values share the
\* highest count
C1_Witness ==
    /\ ByteReturned
    /\ \E a, b \in Slots :
          /\ a < b
          /\ hit_counts[a] = 2
          /\ hit_counts[b] = 2
          /\ s[x - 1] = b

\* C2: guess_byte_once returns the index of a slot whose measured latency
\* is the minimum of the round's timing vector, the lowest-indexed of the
\* slots sharing that minimum, and the result is a slot index.
C2_LowestIndexedMinimum ==
    RoundReturned =>
        /\ guess \in Slots
        /\ \A k \in Slots : times[k] \in Latencies
        /\ \A k \in Slots : times[guess] <= times[k]
        /\ \A k \in Slots : times[k] = times[guess] => guess <= k

\* a round returned a slot other than 0 from a timing vector in which a
\* later slot shares the minimum
C2_Witness ==
    /\ RoundReturned
    /\ guess > 0
    /\ \E k \in Slots : k > guess /\ times[k] = times[guess]
    /\ \E k \in Slots : times[k] > times[guess]

\* C3: in a noise-free environment a round whose transaction started (the
\* gadget loaded the slot of the secret byte b) returns b, for every b.
C3_NoiseFreeRoundReturnsSecret ==
    (RoundReturned /\ ~noisy /\ Started(trace)) =>
        guess = mem[chunk_start + x]

\* a noise-free round after the first, whose gadget loaded the last slot,
\* returned
C3_Witness ==
    /\ RoundReturned
    /\ round > 1
    /\ ~noisy
    /\ Started(trace)
    /\ mem[chunk_start + x] = NumSlots - 1
    /\ guess = NumSlots - 1

(***************************************************************************)
(* The events of a round.                                                  *)
(***************************************************************************)
IsPrefix(a, b) == Len(a) <= Len(b) /\ a = SubSeq(b, 1, Len(a))

Count(tr, ops) == Cardinality({k \in 1 .. Len(tr) : tr[k].op \in ops})

\* a round of guess_byte_once is under way or has just returned
InRound ==
    pc \in {"flush", "xbegin", "branch", "xend", "probe", "select"}
        \/ RoundReturned

\* the round has made its last probe
Probed == pc = "select" \/ RoundReturned

\* the trace with only the addresses of flushes and probes kept
Shape(tr) ==
    [k \in 1 .. Len(tr) |->
        IF tr[k].op \in {"flush", "probe"} THEN tr[k]
        ELSE Event(tr[k].op, 0)]

FlushAll == [k \in 1 .. NumSlots |-> Event("flush", poke_buf + (k - 1) * 4096)]
ProbeAll == [k \in 1 .. NumSlots |-> Event("probe", poke_buf + (k - 1) * 4096)]

StartedRound ==
    FlushAll
        \o <<Event("xbegin", 0), Event("read_secret", 0),
             Event("read_probe", 0), Event("xend", 0)>>
        \o ProbeAll

AbortedRound == FlushAll \o <<Event("xbegin", 0), Event("fence", 0)>> \o ProbeAll

\* C4: the events of every round are, in this order, the flushes of all
\* slots, one run of the transactional gadget, and the probes of slots
\* 0, 1, ... in ascending order, each exactly once: at every moment the
\* events so far are a prefix of that sequence, and a round that has
\* probed has produced all of it.
C4_RoundOrder ==
    InRound =>
        /\ \/ IsPrefix(Shape(trace), StartedRound)
           \/ IsPrefix(Shape(trace), AbortedRound)
        /\ Probed => Shape(trace) \in {StartedRound, AbortedRound}

\* a round after the first has probed every slot after a started gadget
C4_Witness ==
    /\ RoundReturned
    /\ round = PROBE_COUNT
    /\ Shape(trace) = StartedRound
    /\ Len(trace) = 2 * NumSlots + 4

\* C5: a round whose xbegin returned an abort status, whichever it is,
\* takes the fallback path: the fence follows the xbegin, the round reads
\* neither the secret nor the probe buffer in the gadget, loads no slot,
\* begins no second transaction, and still probes every slot and returns
\* a guess.
C5_AbortFallsBack ==
    /\ (pc = "branch" /\ status \in AbortStatuses) => Aborted(trace)
    /\ (InRound /\ Aborted(trace)) =>
          /\ Count(trace, {"xbegin"}) = 1
          /\ Count(trace, {"read_secret", "read_probe", "xend"}) = 0
          /\ pc = "branch" => status \in AbortStatuses
          /\ pc # "branch" =>
                /\ Count(trace, {"fence"}) = 1
                /\ trace[NumSlots + 1].op = "xbegin"
                /\ trace[NumSlots + 2].op = "fence"
          /\ (pc = "branch" \/ (pc = "probe" /\ i = 0)) => cached = {}
          /\ Probed => Count(trace, {"probe"}) = NumSlots
          /\ RoundReturned => guess \in Slots

\* a round after the first whose transaction aborted has probed every slot
\* and returned its guess
C5_Witness ==
    /\ RoundReturned
    /\ round > 1
    /\ Aborted(trace)
    /\ Count(trace, {"fence"}) = 1
    /\ Count(trace, {"probe"}) = NumSlots

\* the program state the gadget must leave alone
gadgetFrame ==
    <<hit_counts, times, mem, poke_mem, poke_buf, held, s, guess, round, x,
      chunk_start, bytes_to_read, calls, dumped, out>>

\* C6: a gadget whose transaction started reads the secret byte v and
\* reads the probe buffer exactly once, at probe_base + v * page_size, so
\* that exactly slot v is cached when it ends; and no step of the gadget
\* changes the hit histogram, the timing vector, the secret, the probe
\* buffer's contents or any other program variable.
C6_GadgetLoadsOneSlot ==
    /\ [](pc = "xend" =>
            LET v == mem[chunk_start + x]
            IN  /\ cached = {poke_buf + v * 4096}
                /\ Count(trace, {"read_secret"}) = 1
                /\ Count(trace, {"read_probe"}) = 1
                /\ trace[Len(trace) - 1] = Event("read_secret", SecretAddr)
                /\ trace[Len(trace)] = Event("read_probe", poke_buf + v * 4096))
    /\ [][(pc \in {"xbegin", "branch", "xend"}) => UNCHANGED gadgetFrame]_vars

\* the gadget of a round after the first has loaded the last slot
C6_Witness ==
    /\ pc = "xend"
    /\ round > 0
    /\ hit_counts[NumSlots - 1] > 0
    /\ mem[chunk_start + x] = NumSlots - 1
    /\ cached = {poke_buf + (NumSlots - 1) * 4096}

\* C7: every address flushed, read by the gadget or probed is
\* probe_base + i * 4096 for a slot i, lies inside the probe buffer, and
\* distinct byte values map to distinct pages of it.
C7_AddressesInBuffer ==
    /\ \A k \in 1 .. Len(trace) :
          trace[k].op \in {"flush", "read_probe", "probe"} =>
              /\ \E j \in Slots : trace[k].arg = poke_buf + j * 4096
              /\ poke_buf <= trace[k].arg
              /\ trace[k].arg < poke_buf + BufSize
    /\ \A a \in cached : \E j \in Slots : a = poke_buf + j * 4096
    /\ held => poke_buf % 4096 = 0
    /\ \A a, b \in Byte :
          a # b =>
              SlotAddr(poke_buf, a) \div 4096 # SlotAddr(poke_buf, b) \div 4096

\* a round has flushed and probed every slot and its gadget has read the
\* last page of the buffer
C7_Witness ==
    /\ Probed
    /\ Count(trace, {"flush"}) = NumSlots
    /\ Count(trace, {"probe"}) = NumSlots
    /\ \E k \in 1 .. Len(trace) :
          trace[k] = Event("read_probe", poke_buf + BufSize - 4096)

(***************************************************************************)
(* The run as a whole.                                                     *)
(***************************************************************************)
\* C8 as stated: the probe buffer is acquired before the first round, is
\* held in every round, and has been released when the run has completed.
C8_ReleasedAtShutdown ==
    /\ InRound => held
    /\ ~held => calls = <<>>
    /\ pc = "done" => ~held

\* the number of 32-byte chunks of the secret range
NumLines == (len + 31) \div 32

\* the recovered line of chunk k (from 1), as dump_hex prints it
RecoveredLine(k) == DumpHexLine(start_addr + 32 * (k - 1), dumped[k].bytes)

\* a line has the form address | hex field | ASCII field, the ASCII field
\* holding n characters
HasLineForm(line, n) ==
    LET a == Len(AddrField(0))
        h == Len(HexField(<<>>))
    IN  /\ Len(line) = a + 3 + h + 2 + n
        /\ SubSeq(line, 1, 2) = <<CharZero, CharX>>
        /\ SubSeq(line, a + 1, a + 3) = <<CharSpace, CharBar, CharSpace>>
        /\ SubSeq(line, a + h + 4, a + h + 5) = <<CharBar, CharSpace>>

\* C9 as stated: the lines a completed run has written to standard output
\* are exactly the ceil(len / 32) recovered lines, in ascending chunk order.
C9_OnlyRecoveredLines ==
    pc = "done" =>
        /\ Len(out) = NumLines
        /\ \A k \in 1 .. NumLines : out[k] = RecoveredLine(k)

\* C9 amended: the lines a completed run has written to standard output
\* are the "poke buffer" header line followed by exactly the ceil(len / 32)
\* recovered lines, each of the form address | hex field | ASCII field, in
\* ascending chunk order.
C9_HeaderThenRecoveredLines ==
    pc = "done" =>
        /\ Len(out) = 1 + NumLines
        /\ out[1] = HeaderLine(poke_buf)
        /\ Len(dumped) = NumLines
        /\ \A k \in 1 .. NumLines :
              /\ out[k + 1] = RecoveredLine(k)
              /\ HasLineForm(out[k + 1], Len(dumped[k].bytes))

\* a run over a range of more than two chunks has completed
C9_Witness ==
    /\ pc = "done"
    /\ len > 64
    /\ Len(out) = 4

\* C10: the walker calls guess_byte once for each address of the range,
\* in ascending order and for no other address, and hands dump_hex one
\* line per 32-byte chunk: line k (from 0) has base address start + 32 * k
\* and exactly min(32, len - 32 * k) recovered bytes, so the last line holds
\* len mod 32 bytes when that is not zero; this holds of the calls and lines
\* so far at every moment, and of all of them when the run has completed.
C10_WalkerPartition ==
    /\ Len(calls) <= len
    /\ \A k \in 1 .. Len(calls) : calls[k] = start_addr + (k - 1)
    /\ Len(dumped) <= NumLines
    /\ \A k \in 1 .. Len(dumped) :
          LET n == Min2(32, len - 32 * (k - 1))
          IN  /\ dumped[k].addr = start_addr + 32 * (k - 1)
              /\ Len(dumped[k].bytes) = n
              /\ \A j \in 1 .. n : dumped[k].bytes[j] \in Byte
              /\ Len(calls) >= 32 * (k - 1) + n
              /\ SubSeq(out[k + 1], 1, Len(AddrField(0)))
                    = AddrField(start_addr + 32 * (k - 1))
              /\ Len(out[k + 1]) = Len(DumpHexLine(0, <<>>)) + n
    /\ Len(calls) <= 32 * (Len(dumped) + 1)
    /\ pc = "done" =>
          /\ Len(calls) = len
          /\ Len(dumped) = NumLines
          /\ len % 32 # 0 => Len(dumped[NumLines].bytes) = len % 32

\* a run over a range of two full chunks and a partial one has completed
C10_Witness ==
    /\ pc = "done"
    /\ len > 64
    /\ len % 32 # 0
    /\ Len(calls) = len
    /\ Len(dumped) = 3
    /\ Len(dumped[3].bytes) = len - 64

\* C11: when the host page size is not 4096, or the probe buffer has not
\* been allocated because the allocation failed, the run goes no further
\* than the failed check: it panics, and no flush, transaction, probe,
\* guess_byte call or output line has happened; a run that completes had
\* the expected page size and its buffer.
C11_FatalStartup ==
    /\ (page_size # 4096 \/ ~held) =>
          /\ pc \in {"main", "alloc", "panicked"}
          /\ page_size # 4096 => pc \in {"main", "panicked"}
          /\ cached = {}
          /\ trace = <<>>
          /\ calls = <<>>
          /\ dumped = <<>>
          /\ out = <<>>
    /\ pc = "panicked" => (page_size # 4096 \/ ~held)
    /\ pc = "done" => (page_size = 4096 /\ held)

\* the allocation has failed on a host with the expected page size
C11_Witness ==
    /\ pc = "panicked"
    /\ page_size = 4096
    /\ ~held
    /\ poke_buf = 0

\* the length of the ASCII field of a line dump_hex printed
AsciiLen(line) == Len(line) - Len(DumpHexLine(0, <<>>))

\* C12 as stated: the demonstration range has 23 bytes: a completed run has
\* called guess_byte 23 times and written one recovered line, whose ASCII
\* field has 23 characters.
C12_TwentyThreeBytes ==
    pc = "done" =>
        /\ len = 23
        /\ Len(calls) = 23
        /\ Len(dumped) = 1
        /\ AsciiLen(out[Len(out)]) = 23

\* C12 amended: the demonstration range "papa, can you hear me?" has 22
\* bytes: a run never calls guess_byte more than 22 times, and a completed
\* run has called it 22 times and written exactly one recovered line, whose
\* ASCII field has 22 characters.
C12_TwentyTwoBytes ==
    /\ len = TEST_LEN
    /\ len = 22
    /\ Len(calls) <= 22
    /\ Len(dumped) <= 1
    /\ pc = "done" =>
          /\ Len(calls) = 22
          /\ Len(dumped) = 1
          /\ Len(out) = 2
          /\ AsciiLen(out[2]) = 22

\* the run over the demonstration range has completed
C12_Witness ==
    /\ pc = "done"
    /\ len = Len(TEST)
    /\ Len(calls) = Len(TEST)
    /\ Len(out) = 2

(***************************************************************************)
(* The rendering of a line.                                                *)
(***************************************************************************)
\* dump_hex has printed its line
Rendered == Len(dumped) = 1 /\ Len(out) = 2

\* the bytes dump_hex was given and the line it printed
RenderedBytes == dumped[1].bytes
RenderedLine == out[2]

\* the hex field of a printed line of n bytes: what lies between the
\* separator after the 18-character address and the separator before the
\* n characters of the ASCII field
HexFieldOf(line, n) == SubSeq(line, 22, Len(line) - n - 2)

\* the ASCII field of a printed line of n bytes: its last n characters
AsciiFieldOf(line, n) == SubSeq(line, Len(line) - n + 1, Len(line))

\* C13: the hex field of a line of n bytes consists of the groups of up to
\* 8 bytes, two characters per byte and one space after each group, then
\* two spaces for each of the 32 - n missing bytes and floor((32 - n) / 8)
\* more spaces; its width is the same for every n.
C13_HexFieldPadding ==
    Rendered =>
        LET n == Len(RenderedBytes)
            field == HexFieldOf(RenderedLine, n)
            groups == (n + 7) \div 8
            data == 2 * n + groups
            padding == 2 * (32 - n) + (32 - n) \div 8
        IN  /\ n <= 32
            /\ Len(field) = 68
            /\ Len(field) = data + padding
            /\ \A p \in 1 .. data :
                  (field[p] = 32) <=> (p % 17 = 0 \/ p = data)
            /\ \A p \in data + 1 .. Len(field) : field[p] = 32

\* a line of 22 bytes is printed with 20 + 1 spaces of padding
C13_Witness ==
    /\ Rendered
    /\ Len(RenderedBytes) = 22
    /\ Len(HexFieldOf(RenderedLine, 22)) = 68
    /\ HexFieldOf(RenderedLine, 22)[47] = 32
    /\ HexFieldOf(RenderedLine, 22)[46] # 32

\* C14: the ASCII field of a printed line of n bytes has exactly n
\* characters and directly follows the separator after the hex field; its
\* i-th character is the i-th byte when that byte is in 0x20 .. 0x7E and
\* '.' otherwise, so that nothing of the unwritten rest of the line array
\* shows in it.
C14_AsciiField ==
    Rendered =>
        LET n == Len(RenderedBytes)
            ascii == AsciiFieldOf(RenderedLine, n)
        IN  /\ Len(RenderedLine) = 18 + 3 + 68 + 2 + n
            /\ SubSeq(RenderedLine, 90, 91) = <<124, 32>>
            /\ Len(ascii) = n
            /\ \A k \in 1 .. n :
                  /\ RenderedBytes[k] \in 0 .. 255
                  /\ ascii[k] =
                        IF RenderedBytes[k] >= 32 /\ RenderedBytes[k] <= 126
                        THEN RenderedBytes[k]
                        ELSE 46

\* a line is printed whose bytes are ' ', '~', 0xDC, ...: the first two
\* appear as themselves and the third as '.'
C14_Witness ==
    /\ Rendered
    /\ Len(RenderedBytes) = 3
    /\ RenderedBytes = <<32, 126, 220>>
    /\ AsciiFieldOf(RenderedLine, 3) = <<32, 126, 46>>

\* the value of a hexadecimal digit, -1 for any other character
HexValue(c) ==
    IF c >= 48 /\ c <= 57 THEN c - 48
    ELSE IF c >= 65 /\ c <= 70 THEN c - 55
    ELSE -1

StripSpaces(str) == SelectSeq(str, LAMBDA c : c # 32)

RECURSIVE ParsePairs(_)
\* the bytes that str spells two hexadecimal digits at a time; a character
\* that is no digit, or a last digit without a partner, yields -1
ParsePairs(str) ==
    IF str = <<>> THEN <<>>
    ELSE IF Len(str) = 1 \/ HexValue(str[1]) < 0 \/ HexValue(str[2]) < 0
         THEN <<-1>>
    ELSE <<16 * HexValue(str[1]) + HexValue(str[2])>>
             \o ParsePairs(SubSeq(str, 3, Len(str)))

\* C15: the hex field of a printed line, its spaces removed and read two
\* hexadecimal digits at a time, yields the bytes of the line in order.
C15_HexRoundTrip ==
    Rendered =>
        ParsePairs(StripSpaces(HexFieldOf(RenderedLine, Len(RenderedBytes))))
            = RenderedBytes

\* the line of TEST has been printed and reads back as TEST
C15_Witness ==
    /\ Rendered
    /\ RenderedBytes = TEST
    /\ ParsePairs(StripSpaces(HexFieldOf(RenderedLine, 22))) = TEST
    /\ SubSeq(HexFieldOf(RenderedLine, 22), 1, 4) = <<55, 48, 54, 49>>

(***************************************************************************)
(* Repeated runs.                                                          *)
(***************************************************************************)
\* what a run recovers for the byte at offset k, from the secret and from
\* the outcomes of its five transactions alone
ReplayedByte(k) ==
    LET aborted == Cardinality({r \in 0 .. 4 : 5 * k + r \in plan})
    IN  IF aborted >= 3 THEN 0 ELSE mem[k]

ReplayedLine(j) ==
    LET n == IF len - 32 * j < 32 THEN len - 32 * j ELSE 32
    IN  DumpHexLine(start_addr + 32 * j,
                    [k \in 1 .. n |-> ReplayedByte(32 * j + k - 1)])

\* the standard output of a whole run, from the addresses, the secret and
\* the outcomes of the transactions alone
ReplayedOutput ==
    <<HeaderLine(poke_buf)>> \o [j \in 1 .. NumLines |-> ReplayedLine(j - 1)]

\* C16: without noise the output of a run is a function of the secret
\* bytes, the buffer and secret addresses and the outcomes of the
\* transactions, so that two runs that agree on these print the same lines:
\* whatever has been printed is the beginning of that one text, and a run
\* that ends has printed all of it; so is what every round and every byte
\* returns on the way.
C16_OutputDetermined ==
    /\ ~noisy
    /\ plan # {-1}
    /\ held => IsPrefix(out, ReplayedOutput)
    /\ ~held => out = <<>>
    /\ pc = "done" => out = ReplayedOutput
    /\ RoundReturned =>
          guess = IF (5 * (chunk_start + x) + round - 1) \in plan
                  THEN 0
                  ELSE mem[chunk_start + x]
    /\ ByteReturned => s[x - 1] = ReplayedByte(chunk_start + x - 1)

\* a run over two bytes has ended in which three transactions of the first
\* byte aborted and none of the second
C16_Witness ==
    /\ pc = "done"
    /\ len = 2
    /\ mem[0] = 1
    /\ mem[1] = 2
    /\ plan = {0, 2, 4}
    /\ dumped[1].bytes = <<0, 2>>
    /\ out = ReplayedOutput

(***************************************************************************)
(* The histogram, the baseline and the vote.                               *)
(***************************************************************************)
RECURSIVE SumTo(_, _)
SumTo(h, k) == IF k < 0 THEN 0 ELSE h[k] + SumTo(h, k - 1)

\* the number of votes in a histogram
Votes(h) == SumTo(h, NumSlots - 1)

\* guess_byte is under way
InByte == pc = "round_loop" \/ InRound

\* C17: while guess_byte runs, the histogram holds one vote per finished
\* round and nothing else: it is all zero before the first round, it holds
\* five votes when guess_byte returns, and the only steps that change it are
\* the reset at the start of a byte and the end of a round, which adds one
\* to exactly one entry, whether the transaction started or aborted.
C17_FiveVotesPerByte ==
    /\ [](/\ InByte => Votes(hit_counts) = round /\ round <= 5
          /\ (pc = "round_loop" /\ round = 0) => hit_counts = ZeroCounts
          /\ ByteReturned => round = 5 /\ Votes(hit_counts) = 5)
    /\ [][/\ (hit_counts' # hit_counts) =>
                \/ pc = "byte_loop" /\ hit_counts' = ZeroCounts
                \/ /\ pc = "select"
                   /\ \E k \in Slots :
                         hit_counts' = [hit_counts EXCEPT ![k] = @ + 1]
          /\ (pc = "select") =>
                /\ round' = round + 1
                /\ Votes(hit_counts') = Votes(hit_counts) + 1
          /\ (pc # "select" /\ pc # "byte_loop") => round' = round]_vars

\* the second byte of a range has been recovered from five fresh votes, one
\* of them cast by an aborted round
C17_Witness ==
    /\ ByteReturned
    /\ x = 2
    /\ mem[1] # 0
    /\ hit_counts[0] = 1
    /\ hit_counts[mem[1]] = 4
    /\ Votes(hit_counts) = 5

\* every slot of the probe buffer
SlotAddrs == {poke_buf + k * 4096 : k \in Slots}

\* the slots the gadget of the current round has read
Loaded == {trace[k].arg : k \in {j \in 1 .. Len(trace) : trace[j].op = "read_probe"}}

\* C18: when the gadget of a round begins, no probe slot is cached, although
\* after the first round the probes of the round before have left every slot
\* cached; without noise a slot the probes find fast is one the gadget of
\* this round has read.
C18_CleanBaseline ==
    /\ pc = "xbegin" => cached \cap SlotAddrs = {}
    /\ (pc = "branch" /\ status # -1) => cached \cap SlotAddrs = {}
    /\ (pc = "flush" /\ i = 0 /\ (round > 0 \/ x > 0)) => SlotAddrs \subseteq cached
    /\ (pc \in {"probe", "select"} /\ ~noisy) =>
          \A k \in Slots :
              times[k] = FastCycles => (poke_buf + k * 4096) \in Loaded
    /\ (RoundReturned /\ ~noisy) =>
          \A k \in Slots :
              times[k] = FastCycles => (poke_buf + k * 4096) \in Loaded

\* the gadget of a later round is about to begin: the slots its predecessor
\* left cached have been flushed
C18_Witness ==
    /\ pc = "xbegin"
    /\ round > 0
    /\ held
    /\ cached = {}
    /\ Len(trace) = NumSlots

\* C19: a value that at least three of the five rounds guessed is what
\* guess_byte returns, and it is the maximum whichever of several maxima a
\* vote would prefer.
C19_StrictMajorityWins ==
    ByteReturned =>
        \A v \in Slots :
            hit_counts[v] >= 3 =>
                /\ s[x - 1] = v
                /\ MaxByKey(hit_counts) = v
                /\ MaxByKeyFirst(hit_counts) = v

\* three rounds guessed 1, one guessed 0 and one guessed a higher value:
\* guess_byte returned 1
C19_Witness ==
    /\ ByteReturned
    /\ hit_counts[1] = 3
    /\ hit_counts[0] = 1
    /\ hit_counts[NumSlots - 1] = 1
    /\ s[x - 1] = 1

\* the round's transaction aborted and there is no noise
QuietAbort == ~noisy /\ Aborted(trace)

\* C20: without noise, a round whose transaction aborted reads no slot, all
\* its probes take the time of an uncached read, guess_byte_once returns 0,
\* and the round's vote is counted for the value 0.
C20_AbortVotesZero ==
    /\ [](/\ (pc = "probe" /\ i = 0 /\ QuietAbort) => cached \cap SlotAddrs = {}
          /\ (pc \in {"probe", "select"} /\ QuietAbort) =>
                /\ Loaded = {}
                /\ \A k \in Slots : times[k] \in {UNINIT, SlowCycles}
          /\ (RoundReturned /\ QuietAbort) =>
                /\ Loaded = {}
                /\ \A k \in Slots : times[k] = SlowCycles
                /\ guess = 0
                /\ hit_counts[0] >= 1)
    /\ [][(pc = "select" /\ QuietAbort) =>
             /\ guess' = 0
             /\ hit_counts' = [hit_counts EXCEPT ![0] = @ + 1]]_vars

\* an aborted round of a byte that is not 0 has returned 0 and the histogram
\* holds its vote
C20_Witness ==
    /\ RoundReturned
    /\ QuietAbort
    /\ mem[0] # 0
    /\ guess = 0
    /\ hit_counts[0] = 1
    /\ round = 1

=============================================================================
